---- MODULE Spec2Model ----
(***************************************************************************)
(* meshmaker (src/meshmaker.cpp): the command-line scan of parse_args and  *)
(* the pipeline driver main().  A run is: scan argv, run the sanity checks,*)
(* then create and connect reader, filters, strip builder and one writer,  *)
(* call Write() and return.  The geometry filters themselves are VTK       *)
(* library code; the driver's state is which objects exist, how they are   *)
(* connected, the options handed to them and the process status.           *)
(***************************************************************************)
EXTENDS Integers, Sequences, FiniteSets, TLC

VARIABLES
    argv,         \* argv[1..argc-1]; argv[0] is the program name, argv[argc] is NULL
    pc,           \* position of the process
    i,            \* parse_args: scan index
    _abort,       \* parse_args: abort flag
    cargs,        \* struct args
    cerr,         \* messages written to the error stream, in order
    cout,         \* messages written to the output stream, in order
    reads,        \* indices k of every argv[k] parse_args has read
    created,      \* pipeline objects constructed so far
    conn,         \* input connection of each pipeline object
    params,       \* options handed to reader and filters
    writers,      \* the writers constructed, each with its settings and Write() result
    exit_status   \* process status once terminated, Running before

vars == <<argv, pc, i, _abort, cargs, cerr, cout, reads, created, conn, params,
          writers, exit_status>>

-----------------------------------------------------------------------------
(* Bounds of the explored argument lists *)

\* any argument of Tokens in any order
MaxArgs == 2
\* flags and one file name: the shapes of the pipeline and of the writer
MaxFlagArgs == 4
\* -o, a format flag, -i and their values: the output file name
MaxOutputArgs == 4
\* -t, -i and their values: the target reduction
MaxRangeArgs == 5

(* Program constants *)

SmoothIterDefault == 20
StripMaxLength == 1000
EXIT_SUCCESS == 0
SIGABRT_STATUS == 134
SIGSEGV_STATUS == 139
Running == -1

NULL == "<null>"

(* Messages of parse_args *)

MissingInputMsg == "Input MAP/MRC file not specified. Aborting..."
Uint64WarningMsg == "Warning: header set to UInt64 with non-vtp output format"
RangeMsg == "Target reduction out of range (0, 1)"

-----------------------------------------------------------------------------
(* Argument tokens and their characters *)

Tokens ==
    { "-c", "-o", "-S", "-V", "-X", "-D", "-s", "-i", "--smooth-iter", "-t",
      "-A", "-U", "--uint64", "-I", "-v", "-h",
      "file.map", "x", "0.5", "0", "1" }

FlagTokens == { "-S", "-D", "-s", "-U", "-v", "file.map" }

OutputTokens == { "-o", "-S", "-i", "x", "0", "file.map" }

RangeTokens == { "-t", "-i", "0", "0.5", "file.map" }

Chars(tok) ==
    CASE tok = "-c" -> <<"-", "c">>
      [] tok = "-o" -> <<"-", "o">>
      [] tok = "-S" -> <<"-", "S">>
      [] tok = "-V" -> <<"-", "V">>
      [] tok = "-X" -> <<"-", "X">>
      [] tok = "-D" -> <<"-", "D">>
      [] tok = "-s" -> <<"-", "s">>
      [] tok = "-i" -> <<"-", "i">>
      [] tok = "--smooth-iter" -> <<"-", "-", "s", "m", "o", "o", "t", "h", "-", "i", "t", "e", "r">>
      [] tok = "-t" -> <<"-", "t">>
      [] tok = "-A" -> <<"-", "A">>
      [] tok = "-U" -> <<"-", "U">>
      [] tok = "--uint64" -> <<"-", "-", "u", "i", "n", "t", "6", "4">>
      [] tok = "-I" -> <<"-", "I">>
      [] tok = "-v" -> <<"-", "v">>
      [] tok = "-h" -> <<"-", "h">>
      [] tok = "file.map" -> <<"f", "i", "l", "e", ".", "m", "a", "p">>
      [] tok = "x" -> <<"x">>
      [] tok = "0.5" -> <<"0", ".", "5">>
      [] tok = "0" -> <<"0">>
      [] tok = "1" -> <<"1">>

SeqsUpTo(S, n) == UNION { [1..k -> S] : k \in 0..n }

ArgLists ==
    SeqsUpTo(Tokens, MaxArgs) \cup SeqsUpTo(FlagTokens, MaxFlagArgs)
    \cup SeqsUpTo(OutputTokens, MaxOutputArgs) \cup SeqsUpTo(RangeTokens, MaxRangeArgs)

argc == Len(argv) + 1

\* strcmp(argv[i], short) == 0 || strcmp(argv[i], long) == 0
IsOpt(tok, short, long) == tok = short \/ tok = long

-----------------------------------------------------------------------------
(* std::stof and std::stoi on a character sequence *)

Digits == { "0", "1", "2", "3", "4", "5", "6", "7", "8", "9" }

DigitVal(ch) ==
    CASE ch = "0" -> 0 [] ch = "1" -> 1 [] ch = "2" -> 2 [] ch = "3" -> 3
      [] ch = "4" -> 4 [] ch = "5" -> 5 [] ch = "6" -> 6 [] ch = "7" -> 7
      [] ch = "8" -> 8 [] ch = "9" -> 9

RECURSIVE DigitRun(_, _)
\* number of consecutive decimal digits of s starting at position k
DigitRun(s, k) ==
    IF k <= Len(s) /\ s[k] \in Digits THEN 1 + DigitRun(s, k + 1) ELSE 0

RECURSIVE DigitsValue(_, _, _)
\* value of the n decimal digits of s starting at position k
DigitsValue(s, k, n) ==
    IF n = 0 THEN 0 ELSE DigitsValue(s, k, n - 1) * 10 + DigitVal(s[k + n - 1])

RECURSIVE Pow10(_)
Pow10(n) == IF n = 0 THEN 1 ELSE 10 * Pow10(n - 1)

SignLen(s) == IF Len(s) >= 1 /\ s[1] \in { "-", "+" } THEN 1 ELSE 0
SignOf(s) == IF Len(s) >= 1 /\ s[1] = "-" THEN -1 ELSE 1

\* std::stoi: optional sign, then decimal digits; the longest such prefix is
\* converted, the rest ignored; no digit at all throws std::invalid_argument.
Stoi(s) ==
    LET p == SignLen(s) + 1
        n == DigitRun(s, p)
    IN  IF n = 0 THEN [ok |-> FALSE, val |-> 0]
        ELSE [ok |-> TRUE, val |-> SignOf(s) * DigitsValue(s, p, n)]

\* std::stof: optional sign, digits, optional '.' and digits; the value is
\* the rational n/d; no digit at all throws std::invalid_argument.
Stof(s) ==
    LET p  == SignLen(s) + 1
        ni == DigitRun(s, p)
        dot == (p + ni <= Len(s)) /\ s[p + ni] = "."
        nf == IF dot THEN DigitRun(s, p + ni + 1) ELSE 0
    IN  IF ni + nf = 0 THEN [ok |-> FALSE, n |-> 0, d |-> 1]
        ELSE [ok |-> TRUE,
              n |-> SignOf(s) * (DigitsValue(s, p, ni) * Pow10(nf)
                                 + DigitsValue(s, p + ni + 1, nf)),
              d |-> Pow10(nf)]

Float(n, d) == [n |-> n, d |-> d]

-----------------------------------------------------------------------------
(* struct args and the initial state *)

DefaultArgs ==
    [ clevel           |-> Float(0, 1),
      out_fn           |-> "out",
      map_fn           |-> "",
      out_format       |-> "vtp",
      decimate         |-> 0,
      smooth           |-> 0,
      smooth_iter      |-> SmoothIterDefault,
      target_reduction |-> Float(9, 10),
      ascii            |-> 0,
      uint64           |-> 0,
      int32            |-> 0,
      verbose          |-> 0,
      out_fn_full      |-> "" ]

Stages == { "cfilt", "tfilt", "sfilt", "dfilt", "strip" }

NoParams ==
    [ reader_file       |-> NULL,
      contour_value     |-> NULL,
      smooth_iterations |-> NULL,
      target_reduction  |-> NULL,
      preserve_topology |-> NULL,
      strip_max_length  |-> NULL ]

Init ==
    /\ argv \in ArgLists
    /\ pc = "parse"
    /\ i = 1
    /\ _abort = 0
    /\ cargs = DefaultArgs
    /\ cerr = <<>>
    /\ cout = <<>>
    /\ reads = {}
    /\ created = {}
    /\ conn = [s \in Stages |-> "none"]
    /\ params = NoParams
    /\ writers = <<>>
    /\ exit_status = Running

-----------------------------------------------------------------------------
(* parse_args: the scan loop, one action per branch of the if / else-if chain *)

Scanning == pc = "parse" /\ i < argc

\* what a use of the null pointer argv[argc] as a C string can do: the
\* std::string constructor throws std::logic_error, or the process faults
NullOutcomes == { "throw", "crash" }

pipeline == <<created, conn, params, writers>>

\* abort(), or std::terminate() on an exception no handler catches
Aborts ==
    /\ pc' = "aborted"
    /\ exit_status' = SIGABRT_STATUS

Faults ==
    /\ pc' = "crashed"
    /\ exit_status' = SIGSEGV_STATUS

Continues ==
    /\ pc' = pc
    /\ exit_status' = exit_status

\* catch (exception& e) { cerr << ...; _abort = 1; }
Caught ==
    /\ cerr' = Append(cerr, "exception caught")
    /\ _abort' = 1

OptClevel ==
    /\ Scanning
    /\ IsOpt(argv[i], "-c", "--clevel")
    /\ reads' = reads \cup { i, i + 1 }
    /\ IF i + 1 < argc
       THEN LET r == Stof(Chars(argv[i + 1])) IN
            /\ IF r.ok
               THEN /\ cargs' = [cargs EXCEPT !.clevel = Float(r.n, r.d)]
                    /\ UNCHANGED <<cerr, _abort>>
               ELSE /\ Caught
                    /\ cargs' = cargs
            /\ i' = i + 2
            /\ Continues
       ELSE \E o \in NullOutcomes :
            IF o = "throw"
            THEN /\ Caught
                 /\ cargs' = cargs
                 /\ i' = i + 2
                 /\ Continues
            ELSE /\ Faults
                 /\ UNCHANGED <<cargs, cerr, _abort, i>>
    /\ UNCHANGED <<argv, cout, pipeline>>

OptOutput ==
    /\ Scanning
    /\ IsOpt(argv[i], "-o", "--output")
    /\ reads' = reads \cup { i, i + 1 }
    /\ IF i + 1 < argc
       THEN /\ cargs' = [cargs EXCEPT !.out_fn = argv[i + 1]]
            /\ i' = i + 2
            /\ Continues
       ELSE /\ \E o \in NullOutcomes : IF o = "throw" THEN Aborts ELSE Faults
            /\ UNCHANGED <<cargs, i>>
    /\ UNCHANGED <<argv, _abort, cerr, cout, pipeline>>

\* a flag branch: one field of cargs set, index advanced by one
SetFlag(field, value) ==
    /\ reads' = reads \cup { i }
    /\ cargs' = [cargs EXCEPT ![field] = value]
    /\ i' = i + 1
    /\ UNCHANGED <<argv, pc, _abort, cerr, cout, pipeline, exit_status>>

OptStl ==
    /\ Scanning
    /\ IsOpt(argv[i], "-S", "--stl")
    /\ SetFlag("out_format", "stl")

OptVtk ==
    /\ Scanning
    /\ IsOpt(argv[i], "-V", "--vtk")
    /\ SetFlag("out_format", "vtk")

OptVtp ==
    /\ Scanning
    /\ IsOpt(argv[i], "-X", "--vtp")
    /\ SetFlag("out_format", "vtp")

OptDecimate ==
    /\ Scanning
    /\ IsOpt(argv[i], "-D", "--decimate")
    /\ SetFlag("decimate", 1)

OptSmooth ==
    /\ Scanning
    /\ IsOpt(argv[i], "-s", "--smooth")
    /\ SetFlag("smooth", 1)

OptSmoothIter ==
    /\ Scanning
    /\ IsOpt(argv[i], "-i", "--smooth-iter")
    /\ reads' = reads \cup { i, i + 1 }
    /\ IF i + 1 < argc
       THEN LET r == Stoi(Chars(argv[i + 1])) IN
            IF r.ok
            THEN /\ cargs' = [cargs EXCEPT !.smooth_iter = r.val]
                 /\ i' = i + 1
                 /\ Continues
            ELSE \* std::invalid_argument, no try block around stoi
                 /\ Aborts
                 /\ UNCHANGED <<cargs, i>>
       ELSE /\ \E o \in NullOutcomes : IF o = "throw" THEN Aborts ELSE Faults
            /\ UNCHANGED <<cargs, i>>
    /\ UNCHANGED <<argv, _abort, cerr, cout, pipeline>>

\* the range check with the two bounds let through
OutOfRange_BoundsAccepted(v) == v.n < 0 \/ v.n > v.d

\* cargs.target_reduction <= 0 || cargs.target_reduction >= 1
OutOfRange(v) == v.n <= 0 \/ v.n >= v.d

\* the range check that follows the try block of -t/--target-reduction
RangeCheck(c, ab, e) ==
    IF OutOfRange(c.target_reduction)
    THEN [ab |-> 1, e |-> Append(e, RangeMsg)]
    ELSE [ab |-> ab, e |-> e]

OptTargetReduction ==
    /\ Scanning
    /\ IsOpt(argv[i], "-t", "--target-reduction")
    /\ reads' = reads \cup { i, i + 1 }
    /\ IF i + 1 < argc
       THEN LET r  == Stof(Chars(argv[i + 1]))
                c  == IF r.ok THEN [cargs EXCEPT !.target_reduction = Float(r.n, r.d)]
                      ELSE cargs
                ab == IF r.ok THEN _abort ELSE 1
                e  == IF r.ok THEN cerr ELSE Append(cerr, "exception caught")
                rc == RangeCheck(c, ab, e)
            IN  /\ cargs' = c
                /\ _abort' = rc.ab
                /\ cerr' = rc.e
                /\ i' = i + 2
                /\ Continues
       ELSE \E o \in NullOutcomes :
            IF o = "throw"
            THEN LET rc == RangeCheck(cargs, 1, Append(cerr, "exception caught")) IN
                 /\ cargs' = cargs
                 /\ _abort' = rc.ab
                 /\ cerr' = rc.e
                 /\ i' = i + 2
                 /\ Continues
            ELSE /\ Faults
                 /\ UNCHANGED <<cargs, cerr, _abort, i>>
    /\ UNCHANGED <<argv, cout, pipeline>>

OptAscii ==
    /\ Scanning
    /\ IsOpt(argv[i], "-A", "--ascii")
    /\ SetFlag("ascii", 1)

OptUint64 ==
    /\ Scanning
    /\ IsOpt(argv[i], "-U", "--uint64")
    /\ SetFlag("uint64", 1)

OptInt32 ==
    /\ Scanning
    /\ IsOpt(argv[i], "-I", "--int32")
    /\ SetFlag("int32", 1)

OptVerbose ==
    /\ Scanning
    /\ IsOpt(argv[i], "-v", "--verbose")
    /\ SetFlag("verbose", 1)

OptHelp ==
    /\ Scanning
    /\ IsOpt(argv[i], "-h", "--help")
    /\ reads' = reads \cup { i }
    /\ cerr' = Append(cerr, "usage")
    /\ Aborts
    /\ UNCHANGED <<argv, i, _abort, cargs, cout, pipeline>>

OptionNames ==
    { "-c", "--clevel", "-o", "--output", "-S", "--stl", "-V", "--vtk",
      "-X", "--vtp", "-D", "--decimate", "-s", "--smooth", "-i",
      "--smooth-iter", "-t", "--target-reduction", "-A", "--ascii", "-U",
      "--uint64", "-I", "--int32", "-v", "--verbose", "-h", "--help" }

\* the final else: the map file
Positional ==
    /\ Scanning
    /\ argv[i] \notin OptionNames
    /\ reads' = reads \cup { i }
    /\ cargs' = [cargs EXCEPT !.map_fn = argv[i]]
    /\ i' = i + 1
    /\ UNCHANGED <<argv, pc, _abort, cerr, cout, pipeline, exit_status>>

-----------------------------------------------------------------------------
(* parse_args: after the loop *)

\* the extension fixed to that of the default format
OutFnFull_FixedExtension(c) == c.out_fn \o "." \o "vtp"

OutFnFull(c) == c.out_fn \o "." \o c.out_format

\* the UInt64 warning treated as an error
SanityAbort_WarningAborts(c, ab) ==
    IF c.map_fn = "" \/ (c.uint64 = 1 /\ c.out_format # "vtp") THEN 1 ELSE ab

\* the abort flag after the sanity checks
SanityAbort(c, ab) == IF c.map_fn = "" THEN 1 ELSE ab

SanityMessages(c) ==
    (IF c.map_fn = "" THEN <<MissingInputMsg>> ELSE <<>>)
    \o (IF c.uint64 = 1 /\ c.out_format # "vtp"
        THEN <<Uint64WarningMsg>> ELSE <<>>)

ParseFinish ==
    /\ pc = "parse"
    /\ ~(i < argc)
    /\ LET c  == [cargs EXCEPT !.out_fn_full = OutFnFull(cargs)]
           ab == SanityAbort(c, _abort)
       IN  /\ cargs' = c
           /\ _abort' = ab
           /\ cerr' = cerr \o SanityMessages(c)
           /\ IF ab # 0
              THEN Aborts
              ELSE /\ pc' = "reader"
                   /\ exit_status' = exit_status
    /\ UNCHANGED <<argv, i, cout, reads, pipeline>>

-----------------------------------------------------------------------------
(* main: the pipeline driver *)

Say(msg) == IF cargs.verbose # 0 THEN Append(cout, msg) ELSE cout

\* vtkMRCReader created, SetFileName(cargs.map_fn)
SetupReader ==
    /\ pc = "reader"
    /\ cout' = Say("Reading MRC/MAP file...")
    /\ created' = created \cup { "reader" }
    /\ params' = [params EXCEPT !.reader_file = cargs.map_fn]
    /\ pc' = "contour"
    /\ UNCHANGED <<argv, i, _abort, cargs, cerr, reads, conn, writers, exit_status>>

\* vtkContourFilter created, fed by the reader, SetValue(0, cargs.clevel)
SetupContour ==
    /\ pc = "contour"
    /\ cout' = Say("Running contour filter...")
    /\ created' = created \cup { "cfilt" }
    /\ conn' = [conn EXCEPT !["cfilt"] = "reader"]
    /\ params' = [params EXCEPT !.contour_value = cargs.clevel]
    /\ pc' = "filters"
    /\ UNCHANGED <<argv, i, _abort, cargs, cerr, reads, writers, exit_status>>

\* the decimator fed by the triangle filter whatever the smooth flag
DecimatorInput_SkipsSmoother(c) == "tfilt"

\* the input the decimator is given
DecimatorInput(c) == IF c.smooth # 0 THEN "sfilt" ELSE "tfilt"

\* the connections made inside if (cargs.decimate || cargs.smooth)
FilterConnections(c, cn) ==
    IF c.decimate # 0 \/ c.smooth # 0
    THEN [s \in Stages |->
            IF s = "tfilt" THEN "cfilt"
            ELSE IF s = "sfilt" /\ c.smooth # 0 THEN "tfilt"
            ELSE IF s = "dfilt" /\ c.decimate # 0 THEN DecimatorInput(c)
            ELSE cn[s]]
    ELSE cn

FilterMessages(c) ==
    IF c.decimate # 0 \/ c.smooth # 0
    THEN <<"Running triangle filter...">>
         \o (IF c.smooth # 0 THEN <<"Running smoothing filter...">> ELSE <<>>)
         \o (IF c.decimate # 0 THEN <<"Running progressive decimation filter...">> ELSE <<>>)
    ELSE <<>>

\* triangle filter, smoother and decimator created; connected as the flags say
BuildFilters ==
    /\ pc = "filters"
    /\ created' = created \cup { "tfilt", "sfilt", "dfilt" }
    /\ conn' = FilterConnections(cargs, conn)
    /\ params' =
         [params EXCEPT
            !.smooth_iterations =
                IF cargs.smooth # 0 THEN cargs.smooth_iter ELSE @,
            !.target_reduction =
                IF cargs.decimate # 0 THEN cargs.target_reduction ELSE @,
            !.preserve_topology =
                IF cargs.decimate # 0 THEN TRUE ELSE @]
    /\ cout' = IF cargs.verbose # 0 THEN cout \o FilterMessages(cargs) ELSE cout
    /\ pc' = "strip"
    /\ UNCHANGED <<argv, i, _abort, cargs, cerr, reads, writers, exit_status>>

\* the input the strip builder is given
StripInput(c) ==
    IF c.decimate # 0 \/ c.smooth # 0
    THEN IF c.decimate # 0 THEN "dfilt" ELSE "sfilt"
    ELSE "cfilt"

\* vtkStripper created, connected, SetMaximumLength(1000)
SetupStrip ==
    /\ pc = "strip"
    /\ created' = created \cup { "strip" }
    /\ cout' = Say("Generating triangle strips...")
    /\ conn' = [conn EXCEPT !["strip"] = StripInput(cargs)]
    /\ params' = [params EXCEPT !.strip_max_length = StripMaxLength]
    /\ pc' = "write"
    /\ UNCHANGED <<argv, i, _abort, cargs, cerr, reads, writers, exit_status>>

AnnounceWrite ==
    /\ pc = "write"
    /\ cout' = Say("Writing output...")
    /\ pc' = "writer"
    /\ UNCHANGED <<argv, i, _abort, cargs, cerr, reads, pipeline, exit_status>>

FileType(c) == IF c.ascii # 0 THEN "ASCII" ELSE "Binary"

\* Write() of a writer: its outcome is the environment's (destination
\* writable or not); main ignores the value Write() returns
Writes(w) ==
    /\ \E ok \in BOOLEAN : writers' = Append(writers, [w EXCEPT !.written = ok])
    /\ pc' = "return"

WriteSTL ==
    /\ pc = "writer"
    /\ cargs.out_format = "stl"
    /\ Writes([ kind     |-> "vtkSTLWriter",
                input    |-> "strip",
                file     |-> cargs.out_fn_full,
                fileType |-> FileType(cargs),
                idType   |-> "n/a",
                header   |-> "n/a",
                written  |-> FALSE ])
    /\ UNCHANGED <<argv, i, _abort, cargs, cerr, cout, reads, created, conn, params,
                   exit_status>>

WriteVTK ==
    /\ pc = "writer"
    /\ cargs.out_format # "stl"
    /\ cargs.out_format = "vtk"
    /\ Writes([ kind     |-> "vtkPolyDataWriter",
                input    |-> "strip",
                file     |-> cargs.out_fn_full,
                fileType |-> FileType(cargs),
                idType   |-> "n/a",
                header   |-> "n/a",
                written  |-> FALSE ])
    /\ UNCHANGED <<argv, i, _abort, cargs, cerr, cout, reads, created, conn, params,
                   exit_status>>

\* the SetHeaderTypeTo... calls made on the XML writer, in order: the call
\* after the else is not inside it
HeaderTypeCalls(c) ==
    (IF c.uint64 # 0 THEN <<"UInt64">> ELSE <<>>) \o <<"UInt32">>

HeaderMessages(c) ==
    IF c.uint64 # 0 THEN <<"Using UInt64 headers...">> ELSE <<"Using UInt32 headers...">>

\* the header type the XML writer holds when Write() is called
HeaderAtWrite(c) == HeaderTypeCalls(c)[Len(HeaderTypeCalls(c))]

WriteVTP ==
    /\ pc = "writer"
    /\ cargs.out_format \notin { "stl", "vtk" }
    /\ cargs.out_format = "vtp"
    /\ cout' = IF cargs.verbose # 0 THEN cout \o HeaderMessages(cargs) ELSE cout
    /\ Writes([ kind     |-> "vtkXMLPolyDataWriter",
                input    |-> "strip",
                file     |-> cargs.out_fn_full,
                fileType |-> FileType(cargs),
                idType   |-> IF cargs.int32 # 0 THEN "Int32" ELSE "Int64",
                header   |-> HeaderAtWrite(cargs),
                written  |-> FALSE ])
    /\ UNCHANGED <<argv, i, _abort, cargs, cerr, reads, created, conn, params,
                   exit_status>>

\* return EXIT_SUCCESS
Return ==
    /\ pc = "return"
    /\ pc' = "exited"
    /\ exit_status' = EXIT_SUCCESS
    /\ UNCHANGED <<argv, i, _abort, cargs, cerr, cout, reads, pipeline>>

-----------------------------------------------------------------------------

Next ==
    \/ OptClevel
    \/ OptOutput
    \/ OptStl
    \/ OptVtk
    \/ OptVtp
    \/ OptDecimate
    \/ OptSmooth
    \/ OptSmoothIter
    \/ OptTargetReduction
    \/ OptAscii
    \/ OptUint64
    \/ OptInt32
    \/ OptVerbose
    \/ OptHelp
    \/ Positional
    \/ ParseFinish
    \/ SetupReader
    \/ SetupContour
    \/ BuildFilters
    \/ SetupStrip
    \/ AnnounceWrite
    \/ WriteSTL
    \/ WriteVTK
    \/ WriteVTP
    \/ Return

Spec == Init /\ [][Next]_vars

Terminated == pc \in { "exited", "aborted", "crashed" }

TypeOK ==
    /\ argv \in ArgLists
    /\ pc \in { "parse", "reader", "contour", "filters", "strip", "write", "writer",
                "return", "exited", "aborted", "crashed" }
    /\ i \in 1..(argc + 1)
    /\ _abort \in { 0, 1 }
    /\ Len(writers) <= 1
    /\ exit_status \in { Running, EXIT_SUCCESS, SIGABRT_STATUS, SIGSEGV_STATUS }

-----------------------------------------------------------------------------
(* The command line as the usage text describes it: "meshmaker [options]   *)
(* file.map", where -c, -o, -i and -t are each followed by one value       *)

ValueOptions ==
    { "-c", "--clevel", "-o", "--output", "-i", "--smooth-iter", "-t",
      "--target-reduction" }

RECURSIVE UsageRoles(_, _)
\* the role of each argument of a from position k on: option, value of the
\* option before it, or positional
UsageRoles(a, k) ==
    IF k > Len(a) THEN <<>>
    ELSE IF a[k] \in ValueOptions
         THEN IF k + 1 <= Len(a)
              THEN <<"opt", "val">> \o UsageRoles(a, k + 2)
              ELSE <<"opt">>
         ELSE IF a[k] \in OptionNames
              THEN <<"opt">> \o UsageRoles(a, k + 1)
              ELSE <<"pos">> \o UsageRoles(a, k + 1)

Roles == UsageRoles(argv, 1)

\* positions where one of the options in names stands as an option
OptionsAt(names) == { k \in 1..Len(argv) : Roles[k] = "opt" /\ argv[k] \in names }

PositionalsAt == { k \in 1..Len(argv) : Roles[k] = "pos" }

HasValue(k) == k + 1 <= Len(argv)

SetMax(S) == CHOOSE m \in S : \A n \in S : n <= m

Range(f) == { f[k] : k \in DOMAIN f }

HelpRequested == OptionsAt({ "-h", "--help" }) # {}

PipelineUntouched == created = {} /\ writers = <<>>

WriterDone == pc \in { "return", "exited" }

-----------------------------------------------------------------------------
(* Claims *)

Uint64Requested == OptionsAt({ "-U", "--uint64" }) # {}

\* C1: in every run that writes the XML format, the header type the XML
\* writer holds when Write() is called is the requested one: UInt64 when
\* -U/--uint64 was given, UInt32 when it was not, verbose or not.
C1_HeaderWidthAsRequested ==
    \A k \in 1..Len(writers) :
        writers[k].kind = "vtkXMLPolyDataWriter"
        => writers[k].header = IF Uint64Requested THEN "UInt64" ELSE "UInt32"

NumericOptions ==
    { "-c", "--clevel", "-i", "--smooth-iter", "-t", "--target-reduction" }

\* the value val converts under the conversion the option opt applies to it
Converts(opt, val) ==
    IF opt \in { "-i", "--smooth-iter" }
    THEN Stoi(Chars(val)).ok
    ELSE Stof(Chars(val)).ok

\* C2: a malformed value of a numeric option (-c, -i, -t) does not stop the
\* scan: the step that processes it records the error and leaves parse_args
\* scanning, so that the remaining arguments and the sanity checks are still
\* processed before the process terminates.
C2_MalformedValueKeepsScanning ==
    [][ ( /\ Scanning
          /\ argv[i] \in NumericOptions
          /\ i + 1 < argc
          /\ ~Converts(argv[i], argv[i + 1]) )
        => ( pc' = "parse" /\ _abort' = 1 ) ]_vars

\* every value-taking option has a value, and the value is well formed for it
WellFormedValues ==
    \A k \in OptionsAt(ValueOptions) :
        /\ HasValue(k)
        /\ argv[k] \in NumericOptions => Converts(argv[k], argv[k + 1])
        /\ argv[k] \in { "-t", "--target-reduction" } =>
             LET v == Stof(Chars(argv[k + 1])) IN 0 < v.n /\ v.n < v.d

\* C3: for an argument list of options and option values only, with no
\* positional input path, parse_args reports the missing input file and
\* terminates with a non-zero status; reader, filters and writer are never
\* set up or run.  Stated here for the lists of that shape in which every
\* value is present and well formed and no help is requested, where nothing
\* but the missing input path can end the run.
C3_NoInputPathRejected ==
    ( PositionalsAt = {} /\ ~HelpRequested /\ WellFormedValues )
    => /\ PipelineUntouched
       /\ pc \notin { "reader", "contour", "filters", "strip", "write", "writer",
                      "return", "exited" }
       /\ Terminated => /\ exit_status # EXIT_SUCCESS
                        /\ MissingInputMsg \in Range(cerr)

\* C5: the process returns the success status only in runs where the
\* writer's Write() succeeded; a failed write makes the run a failure.
C5_SuccessOnlyIfWritten ==
    ( Terminated /\ exit_status = EXIT_SUCCESS )
    => ( Len(writers) = 1 /\ writers[1].written )

\* C9: for an argument list with exactly one positional file.map and
\* well-formed option values, the file name handed to the reader is that
\* positional argument, wherever the options (a -i/--smooth-iter with its
\* value among them) stand relative to it.
C9_ReaderGetsThePositional ==
    ( Cardinality(PositionalsAt) = 1 /\ WellFormedValues /\ "reader" \in created )
    => params.reader_file = argv[SetMax(PositionalsAt)]

\* C10: every access parse_args makes to the argument vector uses an index
\* strictly below argc, and the scan index never passes argc.
C10_ArgvAccessInBounds ==
    /\ \A k \in reads : k < argc
    /\ i <= argc

\* positions of a -t/--target-reduction the scan has processed with a value
\* that converts and lies outside (0, 1)
BadTargetReductionAt ==
    { k \in OptionsAt({ "-t", "--target-reduction" }) :
        /\ HasValue(k)
        /\ k < i
        /\ LET v == Stof(Chars(argv[k + 1])) IN v.ok /\ (v.n <= 0 \/ v.n >= v.d) }

\* C4: once a -t/--target-reduction has been processed with a value <= 0 or
\* >= 1, whatever precedes or follows it (a later valid -t included), the run
\* is rejected: no reader, filter or writer is ever created, and the process
\* does not terminate with the success status.
C4_BadTargetReductionRejected ==
    BadTargetReductionAt # {}
    => /\ PipelineUntouched
       /\ pc \in { "parse", "aborted", "crashed" }
       /\ Terminated => exit_status # EXIT_SUCCESS

\* a rejected run whose only error is a -t 0 that a later valid -t follows
C4_Witness ==
    /\ pc = "aborted"
    /\ BadTargetReductionAt # {}
    /\ \E k \in OptionsAt({ "-t", "--target-reduction" }) :
          /\ k > SetMax(BadTargetReductionAt)
          /\ k < i
    /\ cargs.target_reduction = Float(5, 10)
    /\ cargs.map_fn = "file.map"
    /\ cerr = <<RangeMsg>>

RECURSIVE Chain(_, _)
\* the stages from s upstream along the input connections, n steps at most
Chain(s, n) ==
    IF s \in { "reader", "none" } \/ n = 0
    THEN <<s>>
    ELSE <<s>> \o Chain(conn[s], n - 1)

StripChain == Chain("strip", Cardinality(Stages) + 1)

StripConnected == pc \in { "write", "writer", "return", "exited" }

\* C6: for each combination of the smooth and decimate flags the chain that
\* feeds the strip builder holds the smoother iff smoothing is enabled and
\* the decimator iff decimation is enabled; with both, the smoother's output
\* is the decimator's input; the strip builder's input is the last enabled
\* stage, and the chain reaches the reader through connected stages only.
C6_StageChain ==
    StripConnected
    => /\ ("sfilt" \in Range(StripChain)) <=> (cargs.smooth # 0)
       /\ ("dfilt" \in Range(StripChain)) <=> (cargs.decimate # 0)
       /\ (cargs.smooth # 0 /\ cargs.decimate # 0) => conn["dfilt"] = "sfilt"
       /\ conn["strip"] = IF cargs.decimate # 0 THEN "dfilt"
                          ELSE IF cargs.smooth # 0 THEN "sfilt"
                          ELSE "cfilt"
       /\ "none" \notin Range(StripChain)
       /\ StripChain[Len(StripChain)] = "reader"

\* a finished run with smoothing and decimation both enabled
C6_Witness ==
    /\ pc = "exited"
    /\ cargs.smooth # 0
    /\ cargs.decimate # 0
    /\ StripChain = <<"strip", "dfilt", "sfilt", "tfilt", "cfilt", "reader">>

FormatFlags == { "-S", "--stl", "-V", "--vtk", "-X", "--vtp" }

FormatOfFlag(tok) ==
    IF tok \in { "-S", "--stl" } THEN "stl"
    ELSE IF tok \in { "-V", "--vtk" } THEN "vtk"
    ELSE "vtp"

\* the format the last format flag names, the XML format when there is none
LastFormat ==
    IF OptionsAt(FormatFlags) = {} THEN "vtp"
    ELSE FormatOfFlag(argv[SetMax(OptionsAt(FormatFlags))])

OutputsAt == { k \in OptionsAt({ "-o", "--output" }) : HasValue(k) }

\* the value of the last -o/--output, "out" when there is none
LastOutput ==
    IF OutputsAt = {} THEN "out" ELSE argv[SetMax(OutputsAt) + 1]

WriterOfFormat(fmt) ==
    IF fmt = "stl" THEN "vtkSTLWriter"
    ELSE IF fmt = "vtk" THEN "vtkPolyDataWriter"
    ELSE "vtkXMLPolyDataWriter"

\* C7: in an accepted run exactly one writer is run; it is the writer of the
\* format the last format flag names (the XML writer when none is given) and
\* its file name is the last -o value ("out" when none is given), ".", and
\* that format's extension, also when the format flag comes after -o.
C7_OneWriterLastFormatLastOutput ==
    /\ Len(writers) <= 1
    /\ WriterDone
       => /\ Len(writers) = 1
          /\ writers[1].kind = WriterOfFormat(LastFormat)
          /\ writers[1].file = LastOutput \o "." \o LastFormat

\* a finished run whose format flag -S comes after its -o x
C7_Witness ==
    /\ pc = "exited"
    /\ \E k \in OutputsAt :
          /\ argv[k + 1] = "x"
          /\ \E f \in OptionsAt({ "-S", "--stl" }) : f > k
    /\ Len(writers) = 1
    /\ writers[1].kind = "vtkSTLWriter"
    /\ writers[1].file = "x.stl"

\* C8: -U/--uint64 with a non-XML format is only a warning: when the warning
\* is the only message parse_args reports, the process is not aborted, the
\* pipeline is built, the writer of the chosen format runs, and no header
\* type is applied to it.
C8_Uint64WarningOnly ==
    ( Uint64Requested /\ cerr = <<Uint64WarningMsg>> )
    => /\ pc \notin { "parse", "aborted", "crashed" }
       /\ _abort = 0
       /\ WriterDone
          => /\ Len(writers) = 1
             /\ writers[1].kind = WriterOfFormat(cargs.out_format)
             /\ writers[1].kind # "vtkXMLPolyDataWriter"
             /\ writers[1].header = "n/a"

\* a finished run with -U and the STL format
C8_Witness ==
    /\ pc = "exited"
    /\ Uint64Requested
    /\ cargs.uint64 = 1
    /\ cargs.out_format = "stl"
    /\ cerr = <<Uint64WarningMsg>>
    /\ Len(writers) = 1
    /\ writers[1].kind = "vtkSTLWriter"

====
